---- MODULE Spec2Model ----
(***************************************************************************)
(* Model of scripts/utils.py (ehealthkd-v2): the document graph            *)
(* Collection -> Sentence -> Keyphrase / Relation, Keyphrase.split, the    *)
(* offset resolution and record processing of Collection._parse_ann,       *)
(* Sentence.merge_overlapping_keyphrases and the clone() methods.          *)
(*                                                                         *)
(* Texts are sequences of one-character strings.  Python lists that are    *)
(* shared by reference (Keyphrase.spans) live in `heap`; every other list  *)
(* is owned by exactly one object and is modelled by value.  Python        *)
(* indices are 0-based, TLA+ sequences 1-based: a Python index i is the    *)
(* TLA+ index i+1 and the conversion is written out where it happens.      *)
(***************************************************************************)
EXTENDS Integers, Sequences, FiniteSets, TLC

VARIABLES
    colls,    \* the Collections in scope: colls.c and colls.c2, each the list Collection.sentences
    heap,     \* the span-list objects: reference -> list of (start, end)
    input,    \* the document and the annotation file given to load_ann
    op,       \* the last operation, its arguments and its outcome
    before    \* colls and heap as they were before the last operation

vars == <<colls, heap, input, op, before>>

----------------------------------------------------------------------------
(* Bounds of the model *)

MaxLen == 4          \* longest sentence text of the split specification
MaxSentLen == 3      \* longest sentence text of the offset specification
MaxSents == 3        \* most sentences in a document of the offset specification
MaxEntities == 2     \* most entity records in an annotation file
MaxId == 2           \* largest entity id in an annotation file
MaxDocLen == 2       \* longest sentence text of the entity specification
MaxDocSents == 2     \* most sentences in a document of the entity specification

Chars == {"a", " "}

Texts(n) == UNION {[1..k -> Chars] : k \in 0..n}

Min(a, b) == IF a < b THEN a ELSE b
Max(a, b) == IF a < b THEN b ELSE a

----------------------------------------------------------------------------
(* Python built-ins used by the code *)

\* text[s:e] for a str: negative indices count from the end, both are clamped
PySlice(text, s, e) ==
    LET n  == Len(text)
        s1 == IF s < 0 THEN Max(n + s, 0) ELSE Min(s, n)
        e1 == IF e < 0 THEN Max(n + e, 0) ELSE Min(e, n)
    IN  SubSeq(text, s1 + 1, e1)

\* " ".join(parts)
RECURSIVE Join(_)
Join(parts) ==
    IF parts = <<>> THEN <<>>
    ELSE IF Len(parts) = 1 THEN parts[1]
    ELSE parts[1] \o <<" ">> \o Join(Tail(parts))

\* tuple comparison a < b: lexicographic, a proper prefix is smaller
RECURSIVE TupleLess(_, _)
TupleLess(a, b) ==
    IF b = <<>> THEN FALSE
    ELSE IF a = <<>> THEN TRUE
    ELSE IF a[1] < b[1] THEN TRUE
    ELSE IF b[1] < a[1] THEN FALSE
    ELSE TupleLess(Tail(a), Tail(b))

\* list.sort(key=...): stable.  keys[j] is the key of element j; the result
\* is the order of the positions, built by inserting each position after the
\* last one whose key is not greater
RECURSIVE InsertSorted(_, _, _)
InsertSorted(sorted, x, keys) ==
    IF sorted = <<>> THEN <<x>>
    ELSE LET last == sorted[Len(sorted)]
         IN  IF TupleLess(keys[x], keys[last])
             THEN InsertSorted(SubSeq(sorted, 1, Len(sorted) - 1), x, keys) \o <<last>>
             ELSE sorted \o <<x>>

RECURSIVE SortOrder(_, _)
SortOrder(n, keys) ==
    IF n = 0 THEN <<>> ELSE InsertSorted(SortOrder(n - 1, keys), n, keys)

SortBy(list, keys) ==
    LET order == SortOrder(Len(list), keys)
    IN  [j \in 1..Len(list) |-> list[order[j]]]

\* the loop of bisect.bisect_right(a, x, lo, hi)
RECURSIVE BisectLoop(_, _, _, _)
BisectLoop(a, x, lo, hi) ==
    IF lo < hi
    THEN LET mid == (lo + hi) \div 2
         IN  IF x < a[mid + 1] THEN BisectLoop(a, x, lo, mid)
             ELSE BisectLoop(a, x, mid + 1, hi)
    ELSE lo

\* bisect.bisect(a, x): the number of the first entry greater than x (0-based)
Bisect(a, x) == BisectLoop(a, x, 0, Len(a))

\* str.lower() on the labels of the model
Lower(label) ==
    CASE label = "Target" -> "target"
      [] label = "Subject" -> "subject"
      [] OTHER -> label

----------------------------------------------------------------------------
(* The heap of span lists *)

\* the span lists the Keyphrases of a Collection refer to
Refs(coll) ==
    UNION {{coll[si].keyphrases[ki].spans : ki \in DOMAIN coll[si].keyphrases} :
        si \in DOMAIN coll}

\* a reference no object of h has
NewRef(h) == CHOOSE r \in 1..(Cardinality(DOMAIN h) + 1) : r \notin DOMAIN h

\* the list `spans` as a new object
Alloc(h, spans) == [r \in DOMAIN h \cup {NewRef(h)} |-> IF r \in DOMAIN h THEN h[r] ELSE spans]

\* drop the objects nothing refers to any more
Collect(cs, h) == [r \in (DOMAIN h) \cap (Refs(cs.c) \cup Refs(cs.c2)) |-> h[r]]

\* a Collection with every span list written out
View(coll, h) ==
    [si \in DOMAIN coll |->
        [text |-> coll[si].text,
         keyphrases |-> [ki \in DOMAIN coll[si].keyphrases |->
             [label |-> coll[si].keyphrases[ki].label,
              id |-> coll[si].keyphrases[ki].id,
              spans |-> h[coll[si].keyphrases[ki].spans]]],
         relations |-> coll[si].relations]]

----------------------------------------------------------------------------
(* class Keyphrase *)

\* Keyphrase(sentence, label, id, spans); the back-reference `sentence` is
\* the Sentence whose keyphrases list holds the record
Keyphrase(label, id, spans) == [label |-> label, id |-> id, spans |-> spans]

\* Keyphrase.text
KeyphraseText(text, spans) ==
    Join([j \in 1..Len(spans) |-> PySlice(text, spans[j][1], spans[j][2])])

\* SpaceBoundaries that opens the next span at the space, not after it
RECURSIVE SpaceBoundariesAtSpace(_, _, _)
SpaceBoundariesAtSpace(txt, start, i) ==
    IF i >= Len(txt) THEN <<>>
    ELSE (IF txt[i + 1] = " " THEN <<start + i, start + i>> ELSE <<>>)
         \o SpaceBoundariesAtSpace(txt, start, i + 1)

\* the boundaries appended by the loop of Keyphrase.split from character i on
RECURSIVE SpaceBoundaries(_, _, _)
SpaceBoundaries(txt, start, i) ==
    IF i >= Len(txt) THEN <<>>
    ELSE (IF txt[i + 1] = " " THEN <<start + i, start + i + 1>> ELSE <<>>)
         \o SpaceBoundaries(txt, start, i + 1)

\* the pairing of the boundaries, range(0, len(spans), 2)
PairUp(b) == [j \in 1..(Len(b) \div 2) |-> <<b[2 * j - 1], b[2 * j]>>]

\* the list Keyphrase.split assigns to self.spans (one span on entry)
SplitSpans(text, spans) ==
    LET start == spans[1][1]
        end   == spans[1][2]
        b     == <<start>> \o SpaceBoundaries(KeyphraseText(text, spans), start, 0) \o <<end>>
    IN  PairUp(b)

\* Keyphrase.clone: the new Keyphrase is given self.spans itself
KeyphraseClone(k) == Keyphrase(k.label, k.id, k.spans)

----------------------------------------------------------------------------
(* class Relation *)

Relation(origin, destination, label) ==
    [origin |-> origin, destination |-> destination, label |-> label]

RelationClone(r) == Relation(r.origin, r.destination, r.label)

----------------------------------------------------------------------------
(* class Sentence *)

Sentence(text) == [text |-> text, keyphrases |-> <<>>, relations |-> <<>>]

SentenceClone(s) ==
    [text |-> s.text,
     keyphrases |-> [ki \in DOMAIN s.keyphrases |-> KeyphraseClone(s.keyphrases[ki])],
     relations |-> [ri \in DOMAIN s.relations |-> RelationClone(s.relations[ri])]]

\* Sentence._find_keyphrase_by_id: the position of the first Keyphrase with
\* the id, 0 for None
FindKeyphraseById(s, id) ==
    IF \E ki \in DOMAIN s.keyphrases : s.keyphrases[ki].id = id
    THEN CHOOSE ki \in DOMAIN s.keyphrases :
            /\ s.keyphrases[ki].id = id
            /\ \A kj \in 1..(ki - 1) : s.keyphrases[kj].id # id
    ELSE 0

\* the key of Sentence.sort: the starts followed by the ends
SortKey(spans) ==
    [j \in 1..Len(spans) |-> spans[j][1]] \o [j \in 1..Len(spans) |-> spans[j][2]]

\* Sentence.sort
SentenceSort(s, h) ==
    [s EXCEPT !.keyphrases =
        SortBy(s.keyphrases, [ki \in DOMAIN s.keyphrases |-> SortKey(h[s.keyphrases[ki].spans])])]


\* the elements of a list at the positions outside `removed`, in order
RECURSIVE Without(_, _)
Without(list, removed) ==
    IF list = <<>> THEN <<>>
    ELSE Without(SubSeq(list, 1, Len(list) - 1), removed)
         \o (IF Len(list) \in removed THEN <<>> ELSE <<list[Len(list)]>>)

\* Sentence.overlapping_keyphrases from Keyphrase ki on: each set holds the
\* positions of the Keyphrases whose span lists are equal
RECURSIVE OverlappingLoop(_, _, _, _)
OverlappingLoop(s, h, ki, result) ==
    IF ki > Len(s.keyphrases) THEN result
    ELSE LET overlaps == {ki} \cup {kj \in DOMAIN s.keyphrases :
                            h[s.keyphrases[kj].spans] = h[s.keyphrases[ki].spans]}
         IN  OverlappingLoop(s, h, ki + 1,
                IF Cardinality(overlaps) > 1 /\ \A g \in DOMAIN result : result[g] # overlaps
                THEN Append(result, overlaps) ELSE result)

OverlappingKeyphrases(s, h) == OverlappingLoop(s, h, 1, <<>>)

\* list(keyphrases)[0] for every set of overlaps: a set of objects hashed by
\* address is iterated in an order the code does not control, so `first` is
\* any member
FirstChoices(s, groups) ==
    {f \in [DOMAIN groups -> DOMAIN s.keyphrases] : \A g \in DOMAIN groups : f[g] \in groups[g]}

\* the ids of list(keyphrases)[1:]
RestIds(s, group, first) == {s.keyphrases[k].id : k \in group \ {first}}

\* RewriteRelations that leaves the destinations as they are
RewriteOriginsOnly(rels, rest_ids, first_id) ==
    [ri \in DOMAIN rels |->
        [rels[ri] EXCEPT !.origin = IF @ \in rest_ids THEN first_id ELSE @]]

\* the loop over self.relations for one set of overlaps
RewriteRelations(rels, rest_ids, first_id) ==
    [ri \in DOMAIN rels |->
        Relation(IF rels[ri].origin \in rest_ids THEN first_id ELSE rels[ri].origin,
                 IF rels[ri].destination \in rest_ids THEN first_id ELSE rels[ri].destination,
                 rels[ri].label)]

\* the relations after the sets of overlaps g, g+1, ... have been handled
RECURSIVE MergeRelations(_, _, _, _, _)
MergeRelations(s, groups, firsts, g, rels) ==
    IF g > Len(groups) THEN rels
    ELSE MergeRelations(s, groups, firsts, g + 1,
            RewriteRelations(rels, RestIds(s, groups[g], firsts[g]), s.keyphrases[firsts[g]].id))

\* MergeOverlappingKeyphrases that rewrites the relations and removes nothing
MergeWithoutRemoval(s, h, firsts) ==
    [text |-> s.text,
     keyphrases |-> s.keyphrases,
     relations |-> MergeRelations(s, OverlappingKeyphrases(s, h), firsts, 1, s.relations)]

\* Sentence.merge_overlapping_keyphrases, `firsts` being the members the
\* iteration put first
MergeOverlappingKeyphrases(s, h, firsts) ==
    LET groups  == OverlappingKeyphrases(s, h)
        removed == UNION {groups[g] \ {firsts[g]} : g \in DOMAIN groups}
    IN  [text |-> s.text,
         keyphrases |-> Without(s.keyphrases, removed),
         relations |-> MergeRelations(s, groups, firsts, 1, s.relations)]

----------------------------------------------------------------------------
(* class Collection *)

\* Collection.clone
CollectionClone(coll) == [si \in DOMAIN coll |-> SentenceClone(coll[si])]

\* sentences_length after the accumulation loop, entries 1..n
RECURSIVE SentencesLengthUpTo(_, _)
SentencesLengthUpTo(doc, n) ==
    IF n = 0 THEN <<>>
    ELSE IF n = 1 THEN <<Len(doc[1])>>
    ELSE LET prev == SentencesLengthUpTo(doc, n - 1)
         IN  Append(prev, Len(doc[n]) + (prev[n - 1] + 1))

SentencesLength(doc) == SentencesLengthUpTo(doc, Len(doc))

\* Localize without the newline that separates two sentences
LocalizeNoSeparator(table, i, x) == IF i > 0 THEN x - table[i] ELSE x

\* the correction of an offset of sentence i (0-based): table[i-1] is the
\* TLA+ entry table[i]
Localize(table, i, x) == IF i > 0 THEN x - table[i] - 1 ELSE x

\* the spans of an entity record as stored: corrected and sorted by start
\* when the sentence is not the first
CorrectSpans(table, i, spans) ==
    IF i > 0
    THEN SortBy([j \in DOMAIN spans |-> <<Localize(table, i, spans[j][1]),
                                         Localize(table, i, spans[j][2])>>],
                [j \in DOMAIN spans |-> <<Localize(table, i, spans[j][1])>>])
    ELSE spans

\* d[k] = v on a dict
DictSet(d, k, v) == [x \in DOMAIN d \cup {k} |-> IF x = k THEN v ELSE d[x]]

\* one pass of the loop over the entity lines; acc.ok is FALSE once an
\* exception has been raised
ParseEntity(acc, e, table) ==
    LET i == Bisect(table, e.spans[1][1])
    IN  IF ~acc.ok THEN acc
        ELSE IF i >= Len(acc.objs) THEN [acc EXCEPT !.ok = FALSE]
        ELSE LET spans  == CorrectSpans(table, i, e.spans)
                 stored == IF Len(spans) = 1 THEN SplitSpans(acc.objs[i + 1].text, spans)
                           ELSE spans
             IN  [ok |-> TRUE,
                  objs |-> [acc.objs EXCEPT ![i + 1].keyphrases =
                               Append(@, Keyphrase(e.label, e.id, NewRef(acc.heap)))],
                  heap |-> Alloc(acc.heap, stored),
                  by_id |-> DictSet(acc.by_id, e.id, i)]

RECURSIVE ParseEntities(_, _, _)
ParseEntities(acc, entities, table) ==
    IF entities = <<>> THEN acc
    ELSE ParseEntities(ParseEntity(acc, Head(entities), table), Tail(entities), table)

\* the first loop over the event lines: event_mapping
RECURSIVE EventMapping(_)
EventMapping(events) ==
    IF events = <<>> THEN <<>>
    ELSE LET ev == events[Len(events)]
         IN  DictSet(EventMapping(SubSeq(events, 1, Len(events) - 1)), ev.id, ev.trigger.n)

\* event_mapping.get(ref, int(ref[1:]))
ResolveId(mapping, ref) == IF ref \in DOMAIN mapping THEN mapping[ref] ELSE ref.n

\* the loop over parts[1:] of one event line, the_sentence being objs[si + 1]
RECURSIVE ParseArguments(_, _, _, _, _, _)
ParseArguments(acc, si, src_id, args, mapping, by_id) ==
    IF args = <<>> \/ ~acc.ok THEN acc
    ELSE LET dst_id == ResolveId(mapping, Head(args).ref)
         IN  IF dst_id \notin DOMAIN by_id \/ by_id[dst_id] # si
             THEN [acc EXCEPT !.ok = FALSE]
             ELSE ParseArguments(
                    [acc EXCEPT !.objs[si + 1].relations =
                        Append(@, Relation(src_id, dst_id, Lower(Head(args).label)))],
                    si, src_id, Tail(args), mapping, by_id)

\* one pass of the second loop over the event lines
ParseEvent(acc, ev, mapping, by_id) ==
    LET src_id == ResolveId(mapping, ev.trigger)
    IN  IF ~acc.ok THEN acc
        ELSE IF src_id \notin DOMAIN by_id THEN [acc EXCEPT !.ok = FALSE]
        ELSE ParseArguments(acc, by_id[src_id], src_id, ev.args, mapping, by_id)

RECURSIVE ParseEvents(_, _, _, _)
ParseEvents(acc, events, mapping, by_id) ==
    IF events = <<>> THEN acc
    ELSE ParseEvents(ParseEvent(acc, Head(events), mapping, by_id), Tail(events), mapping, by_id)

\* the classification of the lines of the annotation file by their first
\* character
IsEntityLine(line) == line.prefix = "T"
IsEventLine(line) == line.prefix = "E"
IsRelationLine(line) == line.prefix = "R" \/ line.prefix = "*"

\* the lines the event loops run over
EventLines(ann) == SelectSeq(ann, IsEventLine)

\* Collection._parse_ann up to the final extend: ok is FALSE when an
\* exception ended it, objs is sentences_obj
ParseAnn(doc, ann, h) ==
    LET table    == SentencesLength(doc)
        entities == SelectSeq(ann, IsEntityLine)
        events   == EventLines(ann)
        relations == SelectSeq(ann, IsRelationLine)
        start    == [ok |-> TRUE, objs |-> [si \in DOMAIN doc |-> Sentence(doc[si])],
                     heap |-> h, by_id |-> <<>>]
        parsed   == ParseEntities(start, entities, table)
        linked   == ParseEvents(parsed, events, EventMapping(events), parsed.by_id)
    IN  IF linked.ok
        THEN [ok |-> TRUE, heap |-> linked.heap,
              objs |-> [si \in DOMAIN doc |-> SentenceSort(linked.objs[si], linked.heap)]]
        ELSE [ok |-> FALSE, heap |-> h, objs |-> <<>>]


----------------------------------------------------------------------------
(* The inputs of the model *)

\* an id as written in the annotation file: its first character and its number
Ref(p, n) == [p |-> p, n |-> n]

\* "T<id>\t<label> <start> <end>[;<start> <end>...]\t<text>".  The label
\* takes no part in any decision of the code; the model derives it from the id
EntityLine(id, spans) ==
    [prefix |-> "T", id |-> id,
     label |-> IF id % 2 = 1 THEN "Concept" ELSE "Action",
     spans |-> spans]

\* "<prefix><n>\t<label>:<trigger> <label>:<ref> ..."
EventLine(prefix, n, trigger, args) ==
    [prefix |-> prefix, id |-> Ref(prefix, n), trigger |-> trigger, args |-> args]

Argument(label, ref) == [label |-> label, ref |-> ref]

\* the document "a a\na": table 3, 5
MainDoc == << <<"a", " ", "a">>, <<"a">> >>

\* global spans of MainDoc: the first sentence, its first token, the second sentence
MainSpans == {<<0, 3>>, <<0, 1>>, <<4, 5>>}

MainEntityLines == {EntityLine(id, <<sp>>) : id \in 1..MaxId, sp \in MainSpans}

MainEntities == UNION {[1..n -> MainEntityLines] : n \in 0..MaxEntities}

MainRefs == {Ref("T", n) : n \in 1..MaxId} \cup {Ref("E", 1)}

MainArguments == {<<>>} \cup {<<Argument("Target", ref)>> : ref \in MainRefs}

MainEvents ==
    {<<>>} \cup {<<EventLine("E", 1, trigger, args)>> :
                    trigger \in MainRefs, args \in MainArguments}

\* the annotation files of the main specification
MainAnns == {entities \o events : entities \in MainEntities, events \in MainEvents}

\* the annotation files of the clone specification
CloneAnns ==
    {entities \o events :
        entities \in MainEntities,
        events \in {<<>>, <<EventLine("E", 1, Ref("T", 1), <<Argument("Target", Ref("T", 2))>>)>>}}

\* the entity records of the event specification: none, one, two in one
\* sentence, two in two sentences
EventEntities ==
    {<<>>,
     <<EntityLine(1, << <<0, 3>> >>)>>,
     <<EntityLine(1, << <<0, 3>> >>), EntityLine(2, << <<0, 1>> >>)>>,
     <<EntityLine(1, << <<0, 3>> >>), EntityLine(2, << <<4, 5>> >>)>>}

EventRefs == {Ref(p, n) : p \in {"T", "E"}, n \in 1..2}

EventArguments == {<<>>} \cup {<<Argument("Target", ref)>> : ref \in EventRefs}

\* the n-th event-like record of a file: an event (E), a relation (R, *)
EventLikeLines(n) ==
    {EventLine(prefix, n, trigger, args) :
        prefix \in {"E", "R", "*"}, trigger \in EventRefs, args \in EventArguments}

EventLikeFiles ==
    {<<>>} \cup {<<l1>> : l1 \in EventLikeLines(1)}
           \cup {<<l1, l2>> : l1 \in EventLikeLines(1), l2 \in EventLikeLines(2)}

\* the annotation files of the event specification
EventAnns == {entities \o lines : entities \in EventEntities, lines \in EventLikeFiles}

\* the documents of the entity specification
EntityDocs ==
    UNION {[1..n -> Texts(MaxDocLen) \ {<<>>}] : n \in 1..MaxDocSents}

\* the global offset of the first character of sentence si (1-based) of doc
RECURSIVE SentenceStart(_, _)
SentenceStart(doc, si) ==
    IF si = 1 THEN 0 ELSE SentenceStart(doc, si - 1) + Len(doc[si - 1]) + 1

\* the global spans of doc that lie in one sentence
SpansInside(doc) ==
    UNION {{<<SentenceStart(doc, si) + s, SentenceStart(doc, si) + e>> :
                s \in 0..Len(doc[si]), e \in 0..Len(doc[si])} : si \in DOMAIN doc}

ValidSpans(doc) == {sp \in SpansInside(doc) : sp[1] < sp[2]}

\* the annotation files of the entity specification: one entity record of
\* one span, or of two spans that do not overlap, listed in either order
EntityAnns(doc) ==
    {<<EntityLine(1, <<sp>>)>> : sp \in ValidSpans(doc)} \cup
    {<<EntityLine(1, <<pair[1], pair[2]>>)>> :
        pair \in {q \in ValidSpans(doc) \X ValidSpans(doc) :
                    q[1][2] <= q[2][1] \/ q[2][2] <= q[1][1]}}

\* the documents of the offset specification: texts without spaces, the
\* resolution reads their lengths only
OffsetDocs == UNION {[1..n -> {[j \in 1..k |-> "a"] : k \in 1..MaxSentLen}] : n \in 1..MaxSents}

----------------------------------------------------------------------------
(* The operations *)

Snapshot == [colls |-> colls, heap |-> heap]

Init ==
    /\ colls = [c |-> <<>>, c2 |-> <<>>]
    /\ heap = <<>>
    /\ input = [doc |-> <<>>, ann |-> <<>>]
    /\ op = [name |-> "init"]
    /\ before = [colls |-> [c |-> <<>>, c2 |-> <<>>], heap |-> <<>>]

\* c = Collection(); c.load_ann(...): one document is loaded into a new Collection
LoadAnn(doc, ann) ==
    /\ op.name = "init"
    /\ LET r == ParseAnn(doc, ann, heap)
           loaded == [colls EXCEPT !.c = @ \o r.objs]
       IN  /\ colls' = IF r.ok THEN loaded ELSE colls
           /\ heap' = IF r.ok THEN Collect(loaded, r.heap) ELSE heap
           /\ op' = [name |-> "load_ann", ok |-> r.ok]
    /\ input' = [doc |-> doc, ann |-> ann]
    /\ before' = Snapshot

\* colls[w][si].merge_overlapping_keyphrases()
Merge(w, si) ==
    /\ si \in DOMAIN colls[w]
    /\ \E firsts \in FirstChoices(colls[w][si], OverlappingKeyphrases(colls[w][si], heap)) :
         LET merged == [colls EXCEPT ![w][si] = MergeOverlappingKeyphrases(@, heap, firsts)]
         IN  /\ colls' = merged
             /\ heap' = Collect(merged, heap)
    /\ op' = [name |-> "merge", target |-> w, si |-> si,
              again |-> (op.name = "merge" /\ op.target = w /\ op.si = si)]
    /\ before' = Snapshot
    /\ UNCHANGED input

\* colls[w][si].keyphrases[ki].split()
Split(w, si, ki) ==
    /\ si \in DOMAIN colls[w]
    /\ ki \in DOMAIN colls[w][si].keyphrases
    /\ LET k == colls[w][si].keyphrases[ki]
       IN  IF Len(heap[k.spans]) > 1
           THEN /\ op' = [name |-> "split", target |-> w, si |-> si, ki |-> ki, ok |-> FALSE]
                /\ UNCHANGED <<colls, heap>>
           ELSE LET changed == [colls EXCEPT ![w][si].keyphrases[ki].spans = NewRef(heap)]
                IN  /\ colls' = changed
                    /\ heap' = Collect(changed, Alloc(heap, SplitSpans(colls[w][si].text, heap[k.spans])))
                    /\ op' = [name |-> "split", target |-> w, si |-> si, ki |-> ki, ok |-> TRUE]
    /\ before' = Snapshot
    /\ UNCHANGED input

\* c2 = c.clone()
Clone ==
    /\ colls.c # <<>>
    /\ colls' = [colls EXCEPT !.c2 = CollectionClone(colls.c)]
    /\ heap' = Collect(colls', heap)
    /\ op' = [name |-> "clone"]
    /\ before' = Snapshot
    /\ UNCHANGED input

\* the elements of a list in the opposite order, list.reverse()
Reverse(list) == [j \in 1..Len(list) |-> list[Len(list) + 1 - j]]

\* colls[w][si].keyphrases[ki].spans.reverse(): a caller changes the list
\* object the Keyphrase holds, in place
ReverseSpans(w, si, ki) ==
    /\ si \in DOMAIN colls[w]
    /\ ki \in DOMAIN colls[w][si].keyphrases
    /\ heap' = [heap EXCEPT ![colls[w][si].keyphrases[ki].spans] = Reverse(@)]
    /\ op' = [name |-> "reverse", target |-> w, si |-> si, ki |-> ki]
    /\ before' = Snapshot
    /\ UNCHANGED <<colls, input>>

\* the offset resolution of _parse_ann applied to the global offset g
ResolveOffset(doc, g) ==
    LET table == SentencesLength(doc)
        i     == Bisect(table, g)
    IN  [sentence |-> i, local |-> Localize(table, i, g)]

\* op names character l of sentence i (both 0-based) of op.doc
Resolve ==
    /\ op.name = "input"
    /\ LET g == op.g
           r == ResolveOffset(op.doc, g)
       IN  op' = [name |-> "resolve", doc |-> op.doc, i |-> op.i, l |-> op.l, g |-> g,
                  sentence |-> r.sentence, local |-> r.local]
    /\ UNCHANGED <<colls, heap, input, before>>

----------------------------------------------------------------------------
(* Specifications *)

\* ingestion of one annotated document, then overlap merges
Next ==
    \/ op.name = "init" /\ \E ann \in MainAnns : LoadAnn(MainDoc, ann)
    \/ \E si \in DOMAIN colls.c : Merge("c", si)

Spec == Init /\ [][Next]_vars

\* ingestion of one document with one entity record
NextEntity == \E doc \in EntityDocs : \E ann \in EntityAnns(doc) : LoadAnn(doc, ann)

SpecEntity == Init /\ [][NextEntity]_vars

\* ingestion of one document with event and relation records
NextEvents == \E ann \in EventAnns : LoadAnn(MainDoc, ann)

SpecEvents == Init /\ [][NextEvents]_vars

\* ingestion, clone, then operations on either Collection
NextClone ==
    \/ op.name = "init" /\ \E ann \in CloneAnns : LoadAnn(MainDoc, ann)
    \/ Clone
    \/ \E w \in {"c", "c2"} : \E si \in DOMAIN colls[w] : Merge(w, si)
    \/ \E w \in {"c", "c2"} : \E si \in DOMAIN colls[w] :
          \E ki \in DOMAIN colls[w][si].keyphrases : Split(w, si, ki)
    \/ \E w \in {"c", "c2"} : \E si \in DOMAIN colls[w] :
          \E ki \in DOMAIN colls[w][si].keyphrases : ReverseSpans(w, si, ki)

SpecClone == Init /\ [][NextClone]_vars

\* the characters before character l of sentence i in the document: the
\* sentences before it, one newline after each
RECURSIVE GlobalOffset(_, _, _)
GlobalOffset(doc, i, l) ==
    IF i = 0 THEN l ELSE Len(doc[i]) + 1 + GlobalOffset(doc, i - 1, 0) + l

InitOffset ==
    /\ colls = [c |-> <<>>, c2 |-> <<>>]
    /\ heap = <<>>
    /\ input = [doc |-> <<>>, ann |-> <<>>]
    /\ before = [colls |-> [c |-> <<>>, c2 |-> <<>>], heap |-> <<>>]
    /\ \E doc \in OffsetDocs : \E i \in 0..(Len(doc) - 1) : \E l \in 0..(Len(doc[i + 1]) - 1) :
         op = [name |-> "input", doc |-> doc, i |-> i, l |-> l, g |-> GlobalOffset(doc, i, l)]

NextOffset == Resolve

SpecOffset == InitOffset /\ [][NextOffset]_vars

\* one Sentence holding one Keyphrase of one span
InitSplit ==
    /\ \E text \in Texts(MaxLen) : \E start \in 0..(MaxLen + 1) : \E end \in 0..(MaxLen + 1) :
         /\ colls = [c |-> << [text |-> text,
                               keyphrases |-> << Keyphrase("Concept", 1, 1) >>,
                               relations |-> <<>>] >>,
                     c2 |-> <<>>]
         /\ heap = << << <<start, end>> >> >>
         /\ before = [colls |-> [c |-> <<>>, c2 |-> <<>>], heap |-> <<>>]
    /\ input = [doc |-> <<>>, ann |-> <<>>]
    /\ op = [name |-> "init"]

NextSplit == \E si \in DOMAIN colls.c : \E ki \in DOMAIN colls.c[si].keyphrases : Split("c", si, ki)

SpecSplit == InitSplit /\ [][NextSplit]_vars


----------------------------------------------------------------------------
(* Properties of the offset resolution *)

\* C8: the global offset of character l of sentence i is resolved, by the
\* cumulative table and bisect, to sentence i and local offset l
C8_OffsetResolutionExact ==
    op.name = "resolve" => (op.sentence = op.i /\ op.local = op.l)

\* a character inside the last of three sentences has been resolved
C8_Witness ==
    /\ op.name = "resolve"
    /\ Len(op.doc) = 3 /\ op.i = 2 /\ op.l = 1
    /\ op.g = Len(op.doc[1]) + Len(op.doc[2]) + 3
    /\ op.sentence = 2 /\ op.local = 1

----------------------------------------------------------------------------
(* Properties of Keyphrase.split *)

\* the span list of the Keyphrase the last operation was applied to, before
\* and after it, and the text of its Sentence
SpansBefore == before.heap[before.colls[op.target][op.si].keyphrases[op.ki].spans]
SpansAfter == heap[colls[op.target][op.si].keyphrases[op.ki].spans]
TextOfSentence == colls[op.target][op.si].text

HasSpace(txt) == \E j \in DOMAIN txt : txt[j] = " "

\* C9: after split the derived text of a single-span Keyphrase (start, end)
\* equals sentence.text[start:end], its text before the split, and a
\* substring without a space leaves the span list [(start, end)]
C9_SplitLossless ==
    (op.name = "split" /\ op.ok) =>
        LET start == SpansBefore[1][1]
            end   == SpansBefore[1][2]
            sub   == PySlice(TextOfSentence, start, end)
        IN  /\ KeyphraseText(TextOfSentence, SpansBefore) = sub
            /\ KeyphraseText(TextOfSentence, SpansAfter) = sub
            /\ ~HasSpace(sub) => SpansAfter = << <<start, end>> >>

\* a span over three tokens, the first of them after a leading space, has
\* been split
C9_Witness ==
    /\ op.name = "split" /\ op.ok
    /\ TextOfSentence = <<" ", "a", " ", "a">>
    /\ SpansBefore = << <<0, 4>> >>
    /\ SpansAfter = << <<0, 0>>, <<1, 2>>, <<3, 4>> >>
    /\ KeyphraseText(TextOfSentence, SpansAfter) = TextOfSentence

\* the whitespace-delimited tokens of a text, str.split()
RECURSIVE Tokens(_)
Tokens(txt) ==
    IF txt = <<>> THEN <<>>
    ELSE IF Head(txt) = " " THEN Tokens(Tail(txt))
    ELSE LET rest == Tokens(Tail(txt))
         IN  IF Len(txt) > 1 /\ txt[2] # " "
             THEN <<(<<Head(txt)>> \o Head(rest))>> \o Tail(rest)
             ELSE <<(<<Head(txt)>>)>> \o rest

\* C10: split replaces a span (start < end, inside the sentence) by an
\* ordered list of non-overlapping spans, one per whitespace-delimited token,
\* each with start < end and covering no space
C10_SplitOneSpanPerToken ==
    (/\ op.name = "split" /\ op.ok
     /\ 0 <= SpansBefore[1][1] /\ SpansBefore[1][1] < SpansBefore[1][2]
     /\ SpansBefore[1][2] <= Len(TextOfSentence)) =>
        /\ Len(SpansAfter) = Len(Tokens(KeyphraseText(TextOfSentence, SpansBefore)))
        /\ \A j \in DOMAIN SpansAfter :
            /\ SpansAfter[j][1] < SpansAfter[j][2]
            /\ ~HasSpace(PySlice(TextOfSentence, SpansAfter[j][1], SpansAfter[j][2]))
        /\ \A j \in 1..(Len(SpansAfter) - 1) : SpansAfter[j][2] <= SpansAfter[j + 1][1]


----------------------------------------------------------------------------
(* Properties of the ingestion of entity records *)

EntityLinesOf(ann) == SelectSeq(ann, IsEntityLine)

\* all the global spans lie in one sentence of the document
InOneSentence(doc, spans) ==
    \E si \in DOMAIN doc : \A j \in DOMAIN spans :
        /\ SentenceStart(doc, si) <= spans[j][1]
        /\ spans[j][2] <= SentenceStart(doc, si) + Len(doc[si])

\* the spans lie in [0, len], ascend by start and do not overlap
WellFormedSpans(spans, len) ==
    /\ \A j \in DOMAIN spans : 0 <= spans[j][1] /\ spans[j][1] <= spans[j][2] /\ spans[j][2] <= len
    /\ \A j \in 1..(Len(spans) - 1) :
        spans[j][1] < spans[j + 1][1] /\ spans[j][2] <= spans[j + 1][1]

\* C1: after a successful ingestion every Keyphrase has its spans inside
\* [0, len(sentence.text)], ascending by start and non-overlapping, and every
\* accepted entity has all its spans in one sentence
C1_IngestedSpansWellFormed ==
    (op.name = "load_ann" /\ op.ok) =>
        /\ \A si \in DOMAIN colls.c : \A ki \in DOMAIN colls.c[si].keyphrases :
            WellFormedSpans(heap[colls.c[si].keyphrases[ki].spans], Len(colls.c[si].text))
        /\ \A j \in DOMAIN EntityLinesOf(input.ann) :
            InOneSentence(input.doc, EntityLinesOf(input.ann)[j].spans)

----------------------------------------------------------------------------
(* Properties of the ingestion of event and relation records *)

IsEventLikeLine(line) == IsEventLine(line) \/ IsRelationLine(line)

RECURSIVE CountArguments(_)
CountArguments(lines) ==
    IF lines = <<>> THEN 0 ELSE Len(Head(lines).args) + CountArguments(Tail(lines))

RECURSIVE CountRelations(_)
CountRelations(coll) ==
    IF coll = <<>> THEN 0 ELSE Len(Head(coll).relations) + CountRelations(Tail(coll))

\* every reference of every event-like record names an entity record
NamesEntities(ann) ==
    \A j \in DOMAIN ann : IsEventLikeLine(ann[j]) =>
        \A ref \in {ann[j].trigger} \cup {ann[j].args[a].ref : a \in DOMAIN ann[j].args} :
            ref.p = "T" /\ \E i \in DOMAIN ann : IsEntityLine(ann[i]) /\ ann[i].id = ref.n

\* C4: an R- or *-prefixed record (here one whose references name entity
\* records) is processed as an E-prefixed record: its id is bound in the
\* indirection map and each of its typed arguments is a Relation of the
\* owning Sentence
C4_RelationRecordsAsEvents ==
    (op.name = "load_ann" /\ op.ok /\ NamesEntities(input.ann)) =>
        /\ CountRelations(colls.c) = CountArguments(SelectSeq(input.ann, IsEventLikeLine))
        /\ \A j \in DOMAIN input.ann :
            IsRelationLine(input.ann[j]) =>
                input.ann[j].id \in DOMAIN EventMapping(EventLines(input.ann))

\* the record a reference names exists: entity record n for T<n>, the event
\* record E<n> for E<n>
HasRecord(ann, ref) ==
    IF ref.p = "T"
    THEN \E j \in DOMAIN ann : IsEntityLine(ann[j]) /\ ann[j].id = ref.n
    ELSE \E j \in DOMAIN ann : IsEventLine(ann[j]) /\ ann[j].id = ref

\* the origin and argument references of the event records
References(ann) ==
    UNION {{ann[j].trigger} \cup {ann[j].args[a].ref : a \in DOMAIN ann[j].args} :
            j \in {i \in DOMAIN ann : IsEventLine(ann[i])}}

\* C5: ingestion fails whenever an event record's origin or argument
\* reference names an id for which no record exists
C5_DanglingReferenceFails ==
    (op.name = "load_ann" /\ \E ref \in References(input.ann) : ~HasRecord(input.ann, ref)) =>
        ~op.ok

----------------------------------------------------------------------------
(* Properties of merge_overlapping_keyphrases *)

UniqueEntityIds(ann) ==
    \A i, j \in DOMAIN EntityLinesOf(ann) :
        i # j => EntityLinesOf(ann)[i].id # EntityLinesOf(ann)[j].id

KeyphraseIds(s) == {s.keyphrases[ki].id : ki \in DOMAIN s.keyphrases}

\* both ends of every Relation of the Sentence are found in the Sentence
RelationsResolve(s) ==
    \A ri \in DOMAIN s.relations :
        /\ FindKeyphraseById(s, s.relations[ri].origin) # 0
        /\ FindKeyphraseById(s, s.relations[ri].destination) # 0

\* the Sentence the last merge ran on, before and after it
MergedBefore == before.colls[op.target][op.si]
MergedAfter == colls[op.target][op.si]

\* C2: with unique entity ids, after a successful ingestion and after every
\* merge, both ends of every Relation resolve to a Keyphrase of the
\* Relation's Sentence; a merge keeps the number of Relations and leaves none
\* pointing at the id of a Keyphrase it removed
C2_RelationsResolveInSentence ==
    (op.name \in {"load_ann", "merge"} /\ UniqueEntityIds(input.ann)) =>
        /\ \A si \in DOMAIN colls.c : RelationsResolve(colls.c[si])
        /\ op.name = "merge" =>
            /\ Len(MergedAfter.relations) = Len(MergedBefore.relations)
            /\ \A ri \in DOMAIN MergedAfter.relations :
                \A id \in KeyphraseIds(MergedBefore) \ KeyphraseIds(MergedAfter) :
                    /\ MergedAfter.relations[ri].origin # id
                    /\ MergedAfter.relations[ri].destination # id

\* a merge has removed a Keyphrase and rewritten the destination of a Relation
C2_Witness ==
    /\ op.name = "merge" /\ UniqueEntityIds(input.ann)
    /\ Len(MergedAfter.keyphrases) < Len(MergedBefore.keyphrases)
    /\ \E ri \in DOMAIN MergedAfter.relations :
        /\ MergedAfter.relations[ri].destination # MergedBefore.relations[ri].destination
        /\ MergedAfter.relations[ri].origin = MergedBefore.relations[ri].origin
    /\ RelationsResolve(MergedAfter)

\* the smallest member of a set of positions
First(group) == CHOOSE k \in group : \A j \in group : k <= j

\* C3: of every group of Keyphrases with equal span lists the member first in
\* the Sentence's keyphrase order survives and the others are retired; a
\* Relation whose destination was a retired member points at the survivor
C3_FirstOfGroupSurvives ==
    (op.name = "merge" /\ UniqueEntityIds(input.ann)) =>
        LET groups == OverlappingKeyphrases(MergedBefore, before.heap)
        IN  \A g \in DOMAIN groups :
                LET first == MergedBefore.keyphrases[First(groups[g])].id
                    rest  == {MergedBefore.keyphrases[k].id : k \in groups[g] \ {First(groups[g])}}
                IN  /\ FindKeyphraseById(MergedAfter, first) # 0
                    /\ \A id \in rest : FindKeyphraseById(MergedAfter, id) = 0
                    /\ \A ri \in DOMAIN MergedBefore.relations :
                        MergedBefore.relations[ri].destination \in rest =>
                            MergedAfter.relations[ri].destination = first

RECURSIVE CountKeyphrases(_)
CountKeyphrases(coll) ==
    IF coll = <<>> THEN 0 ELSE Len(Head(coll).keyphrases) + CountKeyphrases(Tail(coll))

\* C7: a merge run right after a merge of the same Sentence changes nothing:
\* it removes no Keyphrase and rewrites no Relation
C7_MergeIdempotent ==
    (op.name = "merge" /\ op.again) =>
        /\ View(colls.c, heap) = View(before.colls.c, before.heap)
        /\ MergedAfter = MergedBefore

\* the merge has run twice on a Sentence that lost a Keyphrase to it and
\* holds a Relation
C7_Witness ==
    /\ op.name = "merge" /\ op.again
    /\ CountKeyphrases(colls.c) < Len(EntityLinesOf(input.ann))
    /\ MergedAfter.relations # <<>>
    /\ MergedAfter = MergedBefore

----------------------------------------------------------------------------
(* Properties of clone *)

Other(w) == IF w = "c" THEN "c2" ELSE "c"

\* C6: once c2 = c.clone() has run, an operation on one of the two
\* Collections (merge, split, a change of a span list in place) leaves every
\* Sentence, Keyphrase, span and Relation of the other as it was
C6_CloneSharesNothing ==
    (op.name \in {"merge", "split", "reverse"} /\ before.colls.c2 # <<>>) =>
        View(colls[Other(op.target)], heap)
            = View(before.colls[Other(op.target)], before.heap)

====
